---- MODULE Spec2Model ----
(***************************************************************************)
(* Project storage of the workspace (packages/shared/src/projects).         *)
(*                                                                          *)
(* The filesystem is a function from paths to nodes.  A path is the         *)
(* sequence of its components below the workspace root, so <<>> is the      *)
(* workspace root, <<"projects">> the projects directory and                *)
(* <<"projects", slug, "files">> a project's files root.  Separators are    *)
(* the POSIX ones: a relative path argument is given by its components.     *)
(***************************************************************************)
EXTENDS Integers, Sequences, FiniteSets, TLC

VARIABLES
    fs,     \* the filesystem below the workspace root: path -> node
    now,    \* the last value Date.now() returned
    last,   \* the last call made: operation, arguments, returned value
    arg,    \* the name handed to the slug functions
    calls,  \* the createProject calls under way, one per caller
    viewer  \* the FileViewer component: props, state, requests not yet settled

vars == <<fs, now, last, arg, calls, viewer>>

----------------------------------------------------------------------------
(* Bounds of the model *)

\* Date.now() never exceeds MaxClock
MaxClock == 1
\* the longest run of one repeated character inside a generated name
MaxRun == 51
\* the largest numeric suffix among the entries present before a slug probe
MaxSuffix == 10
\* the most entries the projects directory holds, workspace specification
MaxProjects == 3
\* the same, config specification
MaxConfigProjects == 1

\* the deepest entry a file operation may leave below a files root
MaxDepth == 2
\* the largest updatedAt of a config.json drawn for the queries
MaxStamp == 2
\* the readProjectFile requests one FileViewer sends
MaxRequests == 3

\* substring(0, 50) of generateSlug
SlugMaxLen == 50
\* the first counter generateUniqueProjectSlug probes
FirstCounter == 2

----------------------------------------------------------------------------
(* Characters and strings *)

LowerLetters == {"a", "b", "p", "r", "o", "j", "e", "c", "t", "x", "y"}
UpperLetters == {"A", "B", "X"}
DigitChars == {"0", "1", "2", "3", "4", "5", "6", "7", "8", "9"}
SymbolChars == {"-", " ", "!", "_"}

\* String.prototype.toLowerCase on one character
toLowerCase(c) ==
    CASE c = "A" -> "a"
      [] c = "B" -> "b"
      [] c = "X" -> "x"
      [] OTHER -> c

\* the class [a-z0-9] of the regular expressions
IsAlnum(c) == c \in LowerLetters \cup DigitChars

\* a sequence of characters as one string
RECURSIVE Str(_)
Str(s) == IF s = <<>> THEN "" ELSE Head(s) \o Str(Tail(s))

DigitOf(d) == CASE d = 0 -> "0" [] d = 1 -> "1" [] d = 2 -> "2" [] d = 3 -> "3"
                [] d = 4 -> "4" [] d = 5 -> "5" [] d = 6 -> "6" [] d = 7 -> "7"
                [] d = 8 -> "8" [] d = 9 -> "9"

\* the decimal digits of a counter, as a template literal prints it
RECURSIVE DecStr(_)
DecStr(n) == IF n < 10 THEN DigitOf(n) ELSE DecStr(n \div 10) \o DigitOf(n % 10)

----------------------------------------------------------------------------
(* Slug generation *)

\* .toLowerCase()
LowerAll(s) == [i \in 1..Len(s) |-> toLowerCase(s[i])]

\* .replace(/[^a-z0-9]+/g, '-'): every maximal run of other characters
\* becomes one '-'
RECURSIVE CollapseRuns(_, _)
CollapseRuns(s, i) ==
    IF i > Len(s) THEN <<>>
    ELSE IF IsAlnum(s[i]) THEN <<s[i]>> \o CollapseRuns(s, i + 1)
    ELSE IF i > 1 /\ ~IsAlnum(s[i - 1]) THEN CollapseRuns(s, i + 1)
    ELSE <<"-">> \o CollapseRuns(s, i + 1)

\* .replace(/^-|-$/g, ''): one '-' at the start and one at the end are removed
StripEdges(s) ==
    LET a == IF Len(s) > 0 /\ s[1] = "-" THEN Tail(s) ELSE s
    IN  IF Len(a) > 0 /\ a[Len(a)] = "-" THEN SubSeq(a, 1, Len(a) - 1) ELSE a

\* .substring(0, n)
Substring(s, n) == IF Len(s) <= n THEN s ELSE SubSeq(s, 1, n)

generateSlug(name) ==
    LET slug == Substring(StripEdges(CollapseRuns(LowerAll(name), 1)), SlugMaxLen)
    IN  IF slug = <<>> THEN <<"p", "r", "o", "j", "e", "c", "t">> ELSE slug

----------------------------------------------------------------------------
(* Paths *)

\* path.normalize: "." and "" vanish, ".." removes the component before it
RECURSIVE Normalize(_, _)
Normalize(done, rest) ==
    IF rest = <<>> THEN done
    ELSE LET c == Head(rest) IN
         IF c = "." \/ c = "" THEN Normalize(done, Tail(rest))
         ELSE IF c = ".." THEN
              Normalize(IF done = <<>> THEN done ELSE SubSeq(done, 1, Len(done) - 1),
                        Tail(rest))
         ELSE Normalize(Append(done, c), Tail(rest))

\* path.join(base, rel)
join(base, rel) == Normalize(<<>>, base \o rel)

getWorkspaceProjectsPath == join(<<>>, <<"projects">>)
getProjectPath(projectSlug) == join(getWorkspaceProjectsPath, <<projectSlug>>)
getProjectFilesPath(projectSlug) == join(getProjectPath(projectSlug), <<"files">>)

Parent(p) == IF p = <<>> THEN p ELSE SubSeq(p, 1, Len(p) - 1)
IsPrefix(a, b) == Len(a) <= Len(b) /\ SubSeq(b, 1, Len(a)) = a
Prefixes(p) == {SubSeq(p, 1, i) : i \in 0..Len(p)}

----------------------------------------------------------------------------
(* The filesystem calls of node:fs.  Each returns [ok, fs, val]: ok is     *)
(* FALSE when the call throws, fs is the filesystem after it.               *)

DirNode == [kind |-> "dir"]
FileNode(data) == [kind |-> "file", data |-> data]
Text(s) == [text |-> s]
\* an entry the process has no permission to read (EACCES)
Unreadable(node) == [k \in DOMAIN node \cup {"denied"} |->
                        IF k = "denied" THEN TRUE ELSE node[k]]
Denied(f, p) == "denied" \in DOMAIN f[p]

Ok(f, v) == [ok |-> TRUE, fs |-> f, val |-> v]
Throw(f) == [ok |-> FALSE, fs |-> f, val |-> "error"]

existsSync(f, p) == p \in DOMAIN f
IsDir(f, p) == p \in DOMAIN f /\ f[p].kind = "dir"
IsFile(f, p) == p \in DOMAIN f /\ f[p].kind = "file"

\* mkdirSync(p, { recursive: true })
mkdirSync(f, p) ==
    IF \E q \in Prefixes(p) : IsFile(f, q) THEN Throw(f)
    ELSE Ok([q \in DOMAIN f \cup Prefixes(p) |->
                IF q \in DOMAIN f THEN f[q] ELSE DirNode], "void")

writeFileSync(f, p, data) ==
    IF p = <<>> \/ ~IsDir(f, Parent(p)) \/ IsDir(f, p) THEN Throw(f)
    ELSE Ok([q \in DOMAIN f \cup {p} |-> IF q = p THEN FileNode(data) ELSE f[q]],
            "void")

readFileSync(f, p) ==
    IF IsFile(f, p) /\ ~Denied(f, p) THEN Ok(f, f[p].data) ELSE Throw(f)

\* rmSync(p, { recursive: true })
rmSync(f, p) ==
    IF ~existsSync(f, p) THEN Throw(f)
    ELSE Ok([q \in {r \in DOMAIN f : ~IsPrefix(p, r)} |-> f[q]], "void")

unlinkSync(f, p) ==
    IF ~IsFile(f, p) THEN Throw(f)
    ELSE Ok([q \in DOMAIN f \ {p} |-> f[q]], "void")

HasChildren(f, p) == \E q \in DOMAIN f : q # p /\ IsPrefix(p, q)

renameSync(f, old, new) ==
    IF ~existsSync(f, old) \/ ~IsDir(f, Parent(new)) \/ new = <<>> THEN Throw(f)
    ELSE IF old = new THEN Ok(f, "void")
    ELSE IF IsDir(f, old) /\ IsPrefix(old, new) THEN Throw(f)
    ELSE IF existsSync(f, new) /\
            (f[old].kind # f[new].kind \/ HasChildren(f, new)) THEN Throw(f)
    ELSE LET kept == {q \in DOMAIN f : ~IsPrefix(old, q) /\ ~IsPrefix(new, q)}
             moved == {q \in DOMAIN f : IsPrefix(old, q)}
             To(q) == new \o SubSeq(q, Len(old) + 1, Len(q))
         IN  Ok([r \in kept \cup {To(q) : q \in moved} |->
                    IF r \in kept THEN f[r]
                    ELSE f[old \o SubSeq(r, Len(new) + 1, Len(r))]], "void")

\* the names readdirSync returns for directory p
ChildNames(f, p) == {q[Len(q)] : q \in {r \in DOMAIN f : r # <<>> /\ Parent(r) = p}}

\* a set of names in the order the directory hands them out (implementation-defined)
RECURSIVE DirOrder(_)
DirOrder(S) == IF S = {} THEN <<>>
               ELSE LET n == CHOOSE n \in S : TRUE IN <<n>> \o DirOrder(S \ {n})

\* readdirSync(p, { withFileTypes: true })
readdirSync(f, p) ==
    IF ~IsDir(f, p) \/ Denied(f, p) THEN Throw(f)
    ELSE LET names == DirOrder(ChildNames(f, p))
         IN  Ok(f, [i \in 1..Len(names) |->
                       [name |-> names[i], kind |-> f[Append(p, names[i])].kind]])

----------------------------------------------------------------------------
(* Unique slugs *)

\* the probe with its while loop left out
ProbeCounterNoLoop(f, projectsDir, slug, counter) == counter

RECURSIVE ProbeCounter(_, _, _, _)
ProbeCounter(f, projectsDir, slug, counter) ==
    IF existsSync(f, join(projectsDir, <<Str(slug) \o "-" \o DecStr(counter)>>))
    THEN ProbeCounter(f, projectsDir, slug, counter + 1)
    ELSE counter

\* the base slug returned without looking at the directory
generateUniqueProjectSlugNoProbe(f, name, projectsDir) == Str(generateSlug(name))

generateUniqueProjectSlug(f, name, projectsDir) ==
    LET slug == generateSlug(name)
        candidate == Str(slug)
    IN  IF ~existsSync(f, join(projectsDir, <<candidate>>)) THEN candidate
        ELSE Str(slug) \o "-" \o DecStr(ProbeCounter(f, projectsDir, slug, FirstCounter))

----------------------------------------------------------------------------
(* JavaScript values.  An object is a function from its own keys to        *)
(* values; a key may be present with the value undefined.                   *)

Undef == [undef |-> TRUE]
Null == [null |-> TRUE]
Void == [void |-> TRUE]
Thrown == [thrown |-> TRUE]
StrV(s) == [str |-> s]
NumV(n) == [num |-> n]
ArrV(a) == [arr |-> a]
BoolV(b) == [bool |-> b]

\* o.k
Get(o, k) == IF k \in DOMAIN o THEN o[k] ELSE Undef
\* { ...a, ...b }
Spread(a, b) == [k \in DOMAIN a \cup DOMAIN b |-> IF k \in DOMAIN b THEN b[k] ELSE a[k]]
\* { ...o, k: v }
With(o, k, v) == [x \in DOMAIN o \cup {k} |-> IF x = k THEN v ELSE o[x]]
\* the condition of if (v)
Truthy(v) ==
    CASE "str" \in DOMAIN v -> v.str # ""
      [] "num" \in DOMAIN v -> v.num # 0
      [] "arr" \in DOMAIN v -> TRUE
      [] "bool" \in DOMAIN v -> v.bool
      [] OTHER -> FALSE

\* JSON.stringify(o, null, 2): keys whose value is undefined are left out
JSONstringify(o) == [json |-> [k \in {x \in DOMAIN o : o[x] # Undef} |-> o[k]]]
\* JSON.parse(data): the plain texts of the model are no JSON documents
JSONparse(f, data) == IF "json" \in DOMAIN data THEN Ok(f, data.json) ELSE Throw(f)

\* what an operation did: the filesystem after it and what it returned
\* (Thrown when an exception left it)
Res(f, r) == [fs |-> f, ret |-> r]

----------------------------------------------------------------------------
(* Config operations *)

loadProjectConfig(f, projectSlug) ==
    LET configPath == join(getProjectPath(projectSlug), <<"config.json">>)
        r == readFileSync(f, configPath)
        parsed == JSONparse(f, r.val)
    IN  IF ~existsSync(f, configPath) THEN Null
        ELSE IF ~r.ok THEN Null
        ELSE IF ~parsed.ok THEN Null
        ELSE parsed.val

\* saveProjectConfig writing the config as it was handed over
saveProjectConfigNoStamp(f, projectSlug, config, t) ==
    LET projectPath == getProjectPath(projectSlug)
        made == IF ~existsSync(f, projectPath) THEN mkdirSync(f, projectPath)
                ELSE Ok(f, "void")
        written == writeFileSync(made.fs, join(projectPath, <<"config.json">>),
                                 JSONstringify(config))
    IN  IF ~made.ok THEN Res(made.fs, Thrown)
        ELSE IF ~written.ok THEN Res(written.fs, Thrown)
        ELSE Res(written.fs, Void)

\* t is what Date.now() returns at line 135
saveProjectConfig(f, projectSlug, config, t) ==
    LET projectPath == getProjectPath(projectSlug)
        made == IF ~existsSync(f, projectPath) THEN mkdirSync(f, projectPath)
                ELSE Ok(f, "void")
        storageConfig == With(config, "updatedAt", NumV(t))
        written == writeFileSync(made.fs, join(projectPath, <<"config.json">>),
                                 JSONstringify(storageConfig))
    IN  IF ~made.ok THEN Res(made.fs, Thrown)
        ELSE IF ~written.ok THEN Res(written.fs, Thrown)
        ELSE Res(written.fs, Void)

----------------------------------------------------------------------------
(* Load operations *)

RECURSIVE countFiles(_, _)
RECURSIVE CountEntries(_, _, _, _)
\* the for loop of countFiles over entries i..Len(entries)
CountEntries(f, dirPath, entries, i) ==
    IF i > Len(entries) THEN 0
    ELSE (IF entries[i].kind = "file" THEN 1
          ELSE IF entries[i].kind = "dir"
               THEN countFiles(f, join(dirPath, <<entries[i].name>>))
          ELSE 0)
         + CountEntries(f, dirPath, entries, i + 1)

countFiles(f, dirPath) ==
    LET r == readdirSync(f, dirPath)
    IN  IF ~existsSync(f, dirPath) THEN 0
        ELSE IF ~r.ok THEN 0
        ELSE CountEntries(f, dirPath, r.val, 1)

loadProject(f, projectSlug) == loadProjectConfig(f, projectSlug)

getProjectSummary(f, projectSlug, sessionCount) ==
    LET config == loadProjectConfig(f, projectSlug)
    IN  IF config = Null THEN Null
        ELSE [id |-> Get(config, "id"),
              slug |-> Get(config, "slug"),
              name |-> Get(config, "name"),
              description |-> Get(config, "description"),
              sessionCount |-> NumV(sessionCount),
              fileCount |-> NumV(countFiles(f, getProjectFilesPath(projectSlug))),
              createdAt |-> Get(config, "createdAt"),
              updatedAt |-> Get(config, "updatedAt")]

\* the comparator turned round: a.updatedAt - b.updatedAt
compareProjectsAscending(a, b) ==
    IF "num" \in DOMAIN a.updatedAt /\ "num" \in DOMAIN b.updatedAt
    THEN a.updatedAt.num - b.updatedAt.num
    ELSE 0

\* the comparator of projects.sort, line 226: b.updatedAt - a.updatedAt, NaN
\* (which sort takes as 0) when either is no number
compareProjects(a, b) ==
    IF "num" \in DOMAIN a.updatedAt /\ "num" \in DOMAIN b.updatedAt
    THEN b.updatedAt.num - a.updatedAt.num
    ELSE 0

\* Array.prototype.sort with that comparator (stable)
RECURSIVE InsertProject(_, _)
InsertProject(sorted, x) ==
    IF sorted = <<>> THEN <<x>>
    ELSE IF compareProjects(sorted[Len(sorted)], x) <= 0 THEN Append(sorted, x)
    ELSE Append(InsertProject(SubSeq(sorted, 1, Len(sorted) - 1), x),
                sorted[Len(sorted)])
RECURSIVE SortProjects(_)
SortProjects(projects) ==
    IF projects = <<>> THEN <<>>
    ELSE InsertProject(SortProjects(SubSeq(projects, 1, Len(projects) - 1)),
                       projects[Len(projects)])

\* the for loop of listProjects over entries i..Len(entries)
RECURSIVE SummarizeEntries(_, _, _)
SummarizeEntries(f, entries, i) ==
    IF i > Len(entries) THEN <<>>
    ELSE LET summary == getProjectSummary(f, entries[i].name, 0)
             rest == SummarizeEntries(f, entries, i + 1)
         IN  IF entries[i].kind # "dir" THEN rest
             ELSE IF summary # Null THEN <<summary>> \o rest
             ELSE rest

listProjects(f) ==
    LET projectsDir == getWorkspaceProjectsPath
        r == readdirSync(f, projectsDir)
    IN  IF ~existsSync(f, projectsDir) THEN <<>>
        ELSE IF ~r.ok THEN SortProjects(<<>>)
        ELSE SortProjects(SummarizeEntries(f, r.val, 1))

----------------------------------------------------------------------------
(* Create / update / delete *)

\* t is Date.now() at line 245, uuid8 the first 8 characters of randomUUID()
createProject(f, input, t, uuid8) ==
    LET projectsDir == getWorkspaceProjectsPath
        m0 == IF ~existsSync(f, projectsDir) THEN mkdirSync(f, projectsDir)
              ELSE Ok(f, "void")
        slug == generateUniqueProjectSlug(m0.fs, input.name, projectsDir)
        config == [id |-> StrV("proj_" \o uuid8),
                   name |-> StrV(Str(input.name)),
                   slug |-> StrV(slug),
                   description |-> Get(input, "description"),
                   guidelines |-> Get(input, "guidelines"),
                   createdAt |-> NumV(t),
                   updatedAt |-> NumV(t),
                   enabledSourceSlugs |-> Get(input, "enabledSourceSlugs")]
        projectPath == join(projectsDir, <<slug>>)
        m1 == mkdirSync(m0.fs, projectPath)
        m2 == mkdirSync(m1.fs, join(projectPath, <<"files">>))
        w1 == writeFileSync(m2.fs, join(projectPath, <<"config.json">>),
                            JSONstringify(config))
        w2 == IF Truthy(Get(input, "guidelines"))
              THEN writeFileSync(w1.fs, join(projectPath, <<"guidelines.md">>),
                                 Text(input.guidelines.str))
              ELSE Ok(w1.fs, "void")
    IN  IF ~m0.ok THEN Res(m0.fs, Thrown)
        ELSE IF ~m1.ok THEN Res(m1.fs, Thrown)
        ELSE IF ~m2.ok THEN Res(m2.fs, Thrown)
        ELSE IF ~w1.ok THEN Res(w1.fs, Thrown)
        ELSE IF ~w2.ok THEN Res(w2.fs, Thrown)
        ELSE Res(w2.fs, config)

\* updateProject with the null check of line 294 left out
updateProjectNoCheck(f, projectSlug, updates, t1, t2) ==
    LET config == loadProjectConfig(f, projectSlug)
        updated == With(Spread(IF config = Null THEN [k \in {} |-> Undef] ELSE config,
                               updates), "updatedAt", NumV(t1))
        saved == saveProjectConfig(f, projectSlug, updated, t2)
    IN  IF saved.ret = Thrown THEN saved ELSE Res(saved.fs, updated)

\* t1 is Date.now() at line 299, t2 the one saveProjectConfig reads
updateProject(f, projectSlug, updates, t1, t2) ==
    LET config == loadProjectConfig(f, projectSlug)
        updated == With(Spread(config, updates), "updatedAt", NumV(t1))
        saved == saveProjectConfig(f, projectSlug, updated, t2)
        guidelinesPath == join(getProjectPath(projectSlug), <<"guidelines.md">>)
        g == IF Get(updates, "guidelines") # Undef
             THEN IF Truthy(updates.guidelines)
                  THEN writeFileSync(saved.fs, guidelinesPath,
                                     Text(updates.guidelines.str))
                  ELSE IF existsSync(saved.fs, guidelinesPath)
                       THEN unlinkSync(saved.fs, guidelinesPath)
                  ELSE Ok(saved.fs, "void")
             ELSE Ok(saved.fs, "void")
    IN  IF config = Null THEN Res(f, Null)
        ELSE IF saved.ret = Thrown THEN saved
        ELSE IF ~g.ok THEN Res(g.fs, Thrown)
        ELSE Res(g.fs, updated)

\* deleteProject removing config.json where it should remove the folder
deleteProjectConfigOnly(f, projectSlug) ==
    LET projectPath == getProjectPath(projectSlug)
        r == rmSync(f, join(projectPath, <<"config.json">>))
    IN  IF ~existsSync(f, projectPath) THEN Res(f, BoolV(FALSE))
        ELSE IF r.ok THEN Res(r.fs, BoolV(TRUE))
        ELSE Res(r.fs, BoolV(FALSE))

deleteProject(f, projectSlug) ==
    LET projectPath == getProjectPath(projectSlug)
        r == rmSync(f, projectPath)
    IN  IF ~existsSync(f, projectPath) THEN Res(f, BoolV(FALSE))
        ELSE IF r.ok THEN Res(r.fs, BoolV(TRUE))
        ELSE Res(r.fs, BoolV(FALSE))

----------------------------------------------------------------------------
(* File operations *)

\* the names of the model that start with '.'
DotNames == {".h", ".d"}
\* name.startsWith('.')
startsWithDot(name) == name \in DotNames

\* the names of the model in the order of String.prototype.localeCompare
Collation == <<".d", ".h", "a", "b", "c", "config.json", "files", "guidelines.md",
               "p", "project", "projects", "x", "x-2", "x-3", "y">>
CollationRank(name) == CHOOSE i \in 1..Len(Collation) : Collation[i] = name
localeCompare(a, b) ==
    IF CollationRank(a) < CollationRank(b) THEN -1
    ELSE IF CollationRank(a) > CollationRank(b) THEN 1 ELSE 0

\* path.relative(from, to)
CommonLen(a, b) ==
    CHOOSE n \in 0..Len(a) :
        /\ n <= Len(b)
        /\ SubSeq(a, 1, n) = SubSeq(b, 1, n)
        /\ \A m \in (n + 1)..Len(a) : m > Len(b) \/ SubSeq(a, 1, m) # SubSeq(b, 1, m)
relative(from, to) ==
    LET n == CommonLen(from, to)
    IN  [i \in 1..(Len(from) - n) |-> ".."] \o SubSeq(to, n + 1, Len(to))

\* a relative path as the string path.relative returns
RECURSIVE PathStr(_)
PathStr(p) == IF p = <<>> THEN ""
              ELSE IF Len(p) = 1 THEN p[1]
              ELSE p[1] \o "/" \o PathStr(Tail(p))

\* the comparator with the directories-first test left out
compareFilesByName(a, b) == localeCompare(a.name, b.name)

\* the comparator of files.sort, lines 395-398
compareFiles(a, b) ==
    IF a.type # b.type THEN (IF a.type = "directory" THEN -1 ELSE 1)
    ELSE localeCompare(a.name, b.name)

\* Array.prototype.sort with that comparator (stable)
RECURSIVE InsertSorted(_, _)
InsertSorted(sorted, x) ==
    IF sorted = <<>> THEN <<x>>
    ELSE IF compareFiles(sorted[Len(sorted)], x) <= 0 THEN Append(sorted, x)
    ELSE Append(InsertSorted(SubSeq(sorted, 1, Len(sorted) - 1), x),
                sorted[Len(sorted)])
RECURSIVE SortFiles(_)
SortFiles(files) ==
    IF files = <<>> THEN <<>>
    ELSE InsertSorted(SortFiles(SubSeq(files, 1, Len(files) - 1)), files[Len(files)])

RECURSIVE listProjectFiles(_, _, _)
RECURSIVE ListEntries(_, _, _, _, _)
\* the for loop of listProjectFiles over entries i..Len(entries); the size
\* statSync reports for a file is a byte count the model leaves out
ListEntries(f, projectSlug, dirPath, entries, i) ==
    IF i > Len(entries) THEN <<>>
    ELSE LET entry == entries[i]
             filesRoot == getProjectFilesPath(projectSlug)
             fullPath == join(dirPath, <<entry.name>>)
             relativePath == relative(filesRoot, fullPath)
             rest == ListEntries(f, projectSlug, dirPath, entries, i + 1)
         IN  IF startsWithDot(entry.name) THEN rest
             ELSE IF entry.kind = "dir" THEN
                  <<[name |-> entry.name,
                     path |-> PathStr(relativePath),
                     type |-> "directory",
                     children |-> listProjectFiles(f, projectSlug, relativePath)]>>
                  \o rest
             ELSE IF entry.kind = "file" THEN
                  <<[name |-> entry.name,
                     path |-> PathStr(relativePath),
                     type |-> "file"]>> \o rest
             ELSE rest

listProjectFiles(f, projectSlug, subPath) ==
    LET filesRoot == getProjectFilesPath(projectSlug)
        dirPath == IF subPath # <<>> THEN join(filesRoot, subPath) ELSE filesRoot
        r == readdirSync(f, dirPath)
    IN  IF ~existsSync(f, dirPath) THEN <<>>
        ELSE IF ~r.ok THEN <<>>
        ELSE SortFiles(ListEntries(f, projectSlug, dirPath, r.val, 1))

\* readProjectFile with the try/catch of lines 420-424 left out
readProjectFileNoCatch(f, projectSlug, filePath) ==
    LET fullPath == join(getProjectFilesPath(projectSlug), filePath)
        r == readFileSync(f, fullPath)
    IN  IF ~existsSync(f, fullPath) THEN Null
        ELSE IF r.ok THEN r.val ELSE Thrown

readProjectFile(f, projectSlug, filePath) ==
    LET fullPath == join(getProjectFilesPath(projectSlug), filePath)
        r == readFileSync(f, fullPath)
    IN  IF ~existsSync(f, fullPath) THEN Null
        ELSE IF r.ok THEN r.val ELSE Null

writeProjectFile(f, projectSlug, filePath, content) ==
    LET fullPath == join(getProjectFilesPath(projectSlug), filePath)
        dir == join(fullPath, <<"..">>)
        made == IF ~existsSync(f, dir) THEN mkdirSync(f, dir) ELSE Ok(f, "void")
        written == writeFileSync(made.fs, fullPath, Text(content))
    IN  IF ~made.ok THEN Res(made.fs, Thrown)
        ELSE IF ~written.ok THEN Res(written.fs, Thrown)
        ELSE Res(written.fs, Void)

\* createProjectFile with the existence check of line 466 left out
createProjectFileNoCheck(f, projectSlug, filePath, content) ==
    LET r == writeProjectFile(f, projectSlug, filePath, content)
    IN  IF r.ret = Thrown THEN r ELSE Res(r.fs, BoolV(TRUE))

createProjectFile(f, projectSlug, filePath, content) ==
    LET fullPath == join(getProjectFilesPath(projectSlug), filePath)
        dir == join(fullPath, <<"..">>)
        made == IF ~existsSync(f, dir) THEN mkdirSync(f, dir) ELSE Ok(f, "void")
        written == writeFileSync(made.fs, fullPath, Text(content))
    IN  IF existsSync(f, fullPath) THEN Res(f, BoolV(FALSE))
        ELSE IF ~made.ok THEN Res(made.fs, Thrown)
        ELSE IF ~written.ok THEN Res(written.fs, Thrown)
        ELSE Res(written.fs, BoolV(TRUE))

deleteProjectFile(f, projectSlug, filePath) ==
    LET fullPath == join(getProjectFilesPath(projectSlug), filePath)
        r == IF IsDir(f, fullPath) THEN rmSync(f, fullPath) ELSE unlinkSync(f, fullPath)
    IN  IF ~existsSync(f, fullPath) THEN Res(f, BoolV(FALSE))
        ELSE IF r.ok THEN Res(r.fs, BoolV(TRUE))
        ELSE Res(r.fs, BoolV(FALSE))

renameProjectFile(f, projectSlug, oldPath, newPath) ==
    LET filesRoot == getProjectFilesPath(projectSlug)
        fullOldPath == join(filesRoot, oldPath)
        fullNewPath == join(filesRoot, newPath)
        newDir == join(fullNewPath, <<"..">>)
        made == IF ~existsSync(f, newDir) THEN mkdirSync(f, newDir) ELSE Ok(f, "void")
        renamed == renameSync(made.fs, fullOldPath, fullNewPath)
    IN  IF ~existsSync(f, fullOldPath) THEN Res(f, BoolV(FALSE))
        ELSE IF existsSync(f, fullNewPath) THEN Res(f, BoolV(FALSE))
        ELSE IF ~made.ok THEN Res(made.fs, BoolV(FALSE))
        ELSE IF ~renamed.ok THEN Res(renamed.fs, BoolV(FALSE))
        ELSE Res(renamed.fs, BoolV(TRUE))

----------------------------------------------------------------------------
(* Calls.  Every Date.now() of a call returns a value no smaller than the  *)
(* one before it.                                                           *)

Times(from) == from..MaxClock

\* cap: the calls stop once the projects directory holds that many entries
CreateProjectCall(Inputs, Ids, cap) ==
    \E input \in Inputs, t \in Times(now), uuid8 \in Ids :
        /\ Cardinality(ChildNames(fs, getWorkspaceProjectsPath)) < cap
        /\ LET r == createProject(fs, input, t, uuid8)
           IN  /\ fs' = r.fs
               /\ last' = [op |-> "createProject", input |-> input, ret |-> r.ret]
        /\ now' = t
        /\ UNCHANGED <<arg, calls, viewer>>

\* the configs a caller can hold: one it loaded, possibly edited
HeldConfigs(From, Changes) ==
    {Spread(loadProjectConfig(fs, s), e) :
        s \in {x \in From : loadProjectConfig(fs, x) # Null}, e \in Changes}

SaveProjectConfigCall(Targets, From, Changes) ==
    \E slug \in Targets, config \in HeldConfigs(From, Changes), t \in Times(now) :
        /\ LET r == saveProjectConfig(fs, slug, config, t)
           IN  /\ fs' = r.fs
               /\ last' = [op |-> "saveProjectConfig", slug |-> slug,
                           config |-> config, ret |-> r.ret,
                           existed |-> existsSync(fs, getProjectPath(slug))]
        /\ now' = t
        /\ UNCHANGED <<arg, calls, viewer>>

UpdateProjectCall(Targets, Changes) ==
    \E slug \in Targets, updates \in Changes, t1 \in Times(now) :
        \E t2 \in Times(t1) :
            /\ LET r == updateProject(fs, slug, updates, t1, t2)
               IN  /\ fs' = r.fs
                   /\ last' = [op |-> "updateProject", slug |-> slug,
                               updates |-> updates, ret |-> r.ret]
            \* a call that returns null at line 294 reads no clock
            /\ now' = IF loadProjectConfig(fs, slug) = Null THEN now ELSE t2
            /\ UNCHANGED <<arg, calls, viewer>>

DeleteProjectCall(Targets) ==
    \E slug \in Targets :
        /\ LET r == deleteProject(fs, slug)
           IN  /\ fs' = r.fs
               /\ last' = [op |-> "deleteProject", slug |-> slug, ret |-> r.ret]
        /\ UNCHANGED <<now, arg, calls, viewer>>

\* no entry of f lies deeper than MaxDepth below a files root
WithinDepth(f) == \A q \in DOMAIN f : Len(q) <= Len(getProjectFilesPath("p")) + MaxDepth

WriteProjectFileCall(Targets, FilePaths, Texts) ==
    \E slug \in Targets, filePath \in FilePaths, content \in Texts :
        /\ LET r == writeProjectFile(fs, slug, filePath, content)
           IN  /\ WithinDepth(r.fs)
               /\ fs' = r.fs
               /\ last' = [op |-> "writeProjectFile", slug |-> slug,
                           filePath |-> filePath, content |-> content, ret |-> r.ret]
        /\ UNCHANGED <<now, arg, calls, viewer>>

CreateProjectFileCall(Targets, FilePaths, Texts) ==
    \E slug \in Targets, filePath \in FilePaths, content \in Texts :
        /\ LET r == createProjectFile(fs, slug, filePath, content)
           IN  /\ WithinDepth(r.fs)
               /\ fs' = r.fs
               /\ last' = [op |-> "createProjectFile", slug |-> slug,
                           filePath |-> filePath, content |-> content, ret |-> r.ret]
        /\ UNCHANGED <<now, arg, calls, viewer>>

DeleteProjectFileCall(Targets, FilePaths) ==
    \E slug \in Targets, filePath \in FilePaths :
        /\ LET r == deleteProjectFile(fs, slug, filePath)
           IN  /\ fs' = r.fs
               /\ last' = [op |-> "deleteProjectFile", slug |-> slug,
                           filePath |-> filePath, ret |-> r.ret]
        /\ UNCHANGED <<now, arg, calls, viewer>>

RenameProjectFileCall(Targets, FilePaths) ==
    \E slug \in Targets, oldPath \in FilePaths, newPath \in FilePaths :
        /\ LET r == renameProjectFile(fs, slug, oldPath, newPath)
           IN  /\ WithinDepth(r.fs)
               /\ fs' = r.fs
               /\ last' = [op |-> "renameProjectFile", slug |-> slug,
                           oldPath |-> oldPath, newPath |-> newPath, ret |-> r.ret]
        /\ UNCHANGED <<now, arg, calls, viewer>>

ListProjectFilesCall(Targets) ==
    \E slug \in Targets :
        /\ last' = [op |-> "listProjectFiles", slug |-> slug,
                    ret |-> listProjectFiles(fs, slug, <<>>)]
        /\ UNCHANGED <<fs, now, arg, calls, viewer>>

ReadProjectFileCall(Targets, FilePaths) ==
    \E slug \in Targets, filePath \in FilePaths :
        /\ last' = [op |-> "readProjectFile", slug |-> slug, filePath |-> filePath,
                    ret |-> readProjectFile(fs, slug, filePath)]
        /\ UNCHANGED <<fs, now, arg, calls, viewer>>

GetProjectSummaryCall(Targets) ==
    \E slug \in Targets :
        /\ last' = [op |-> "getProjectSummary", slug |-> slug,
                    ret |-> getProjectSummary(fs, slug, 0)]
        /\ UNCHANGED <<fs, now, arg, calls, viewer>>

ListProjectsCall ==
    /\ last' = [op |-> "listProjects", ret |-> listProjects(fs)]
    /\ UNCHANGED <<fs, now, arg, calls, viewer>>

LoadProjectConfigCall(Targets) ==
    \E slug \in Targets :
        /\ last' = [op |-> "loadProjectConfig", slug |-> slug,
                    ret |-> loadProjectConfig(fs, slug)]
        /\ UNCHANGED <<fs, now, arg, calls, viewer>>

LoadProjectCall(Targets) ==
    \E slug \in Targets :
        /\ last' = [op |-> "loadProject", slug |-> slug,
                    ret |-> loadProject(fs, slug)]
        /\ UNCHANGED <<fs, now, arg, calls, viewer>>

GenerateSlugCall ==
    /\ last' = [op |-> "generateSlug", name |-> arg, ret |-> generateSlug(arg)]
    /\ UNCHANGED <<fs, now, arg, calls, viewer>>

GenerateUniqueProjectSlugCall ==
    /\ last' = [op |-> "generateUniqueProjectSlug", name |-> arg,
                ret |-> generateUniqueProjectSlug(fs, arg, getWorkspaceProjectsPath)]
    /\ UNCHANGED <<fs, now, arg, calls, viewer>>

----------------------------------------------------------------------------
(* The workspace: every exported operation, from a workspace root that    *)
(* holds no projects directory yet.                                         *)

EmptyWorkspace == [p \in {<<>>} |-> DirNode]
NoCall == [op |-> "none"]
\* the callers of createProject, none of them in a call
Procs == {1, 2}
NoCalls == [p \in Procs |-> [pc |-> "idle"]]
\* no FileViewer mounted
NoViewer == [mounted |-> FALSE, pending |-> {}]

Names == {<<"X", "!">>}
Uuids == {"a1b2c3d4"}
NoFields == [k \in {} |-> Undef]
CreateInputs ==
    {[name |-> n] : n \in Names} \cup
    {[name |-> n, guidelines |-> StrV("g1")] : n \in Names}
\* the slugs a project can get from Names
Slugs == {"x", "x-2", "x-3"}
\* the project that updates, saves and file operations are aimed at
Target == {"x"}
Updates == {[guidelines |-> StrV("")]}
Edits == {NoFields}
Paths == {<<>>, <<"a">>}
Contents == {"t"}

Init ==
    /\ fs = EmptyWorkspace
    /\ now = 0
    /\ last = NoCall
    /\ arg = <<>>
    /\ calls = NoCalls
    /\ viewer = NoViewer

Next ==
    \/ CreateProjectCall(CreateInputs, Uuids, MaxProjects)
    \/ SaveProjectConfigCall(Target, Slugs, Edits)
    \/ UpdateProjectCall(Target, Updates)
    \/ DeleteProjectCall(Slugs)
    \/ WriteProjectFileCall(Target, Paths, Contents)
    \/ CreateProjectFileCall(Target, Paths, Contents)
    \/ DeleteProjectFileCall(Target, Paths)
    \/ RenameProjectFileCall(Target, Paths)

Spec == Init /\ [][Next]_vars

----------------------------------------------------------------------------
(* The config of one project: createProject, updateProject and             *)
(* saveProjectConfig with every kind of argument.                           *)

ConfigInputs ==
    {[name |-> n] : n \in Names} \cup
    {[name |-> n, guidelines |-> g] : n \in Names, g \in {StrV(""), StrV("g1")}}
ConfigUpdates ==
    {NoFields,
     [name |-> StrV("N")],
     [guidelines |-> StrV("")],
     [guidelines |-> StrV("g2")],
     [guidelines |-> Undef],
     [slug |-> StrV("y"), id |-> StrV("proj_ffffffff"), createdAt |-> NumV(0)]}
ConfigEdits == {NoFields, [guidelines |-> StrV("g2")], [guidelines |-> Undef]}
\* the slugs configs are saved under and updates are aimed at
ConfigSlugs == {"x", "y"}
\* the path and the text by which config.json stops being a JSON document
DamagePaths == {<<"..", "config.json">>}
DamageTexts == {"t"}

NextConfig ==
    \/ CreateProjectCall(ConfigInputs, Uuids, MaxConfigProjects)
    \/ UpdateProjectCall(ConfigSlugs, ConfigUpdates)
    \/ SaveProjectConfigCall(ConfigSlugs, Target, ConfigEdits)
    \/ WriteProjectFileCall(Target, DamagePaths, DamageTexts)

SpecConfig == Init /\ [][NextConfig]_vars

----------------------------------------------------------------------------
(* The file tree of one project, p, as createProject leaves it: the file   *)
(* operations, the listing and the summary.                                 *)

FileProject == {"p"}
FilePaths == {<<>>, <<"a">>, <<"b">>, <<".h">>, <<"a", "b">>}
FileTexts == {"", "t"}

InitFiles ==
    /\ fs = createProject(EmptyWorkspace, [name |-> <<"p">>], 0, "a1b2c3d4").fs
    /\ now = 0
    /\ last = NoCall
    /\ arg = <<>>
    /\ calls = NoCalls
    /\ viewer = NoViewer

NextFiles ==
    \/ WriteProjectFileCall(FileProject, FilePaths, FileTexts)
    \/ CreateProjectFileCall(FileProject, FilePaths, FileTexts)
    \/ DeleteProjectFileCall(FileProject, FilePaths)
    \/ RenameProjectFileCall(FileProject, FilePaths)
    \/ ReadProjectFileCall(FileProject, FilePaths)
    \/ ListProjectFilesCall(FileProject)
    \/ GetProjectSummaryCall(FileProject)

SpecFiles == InitFiles /\ [][NextFiles]_vars

----------------------------------------------------------------------------
(* Moving entries about in the file tree of p, with well-formed paths only *)

RenamePaths == {<<"a">>, <<"b">>, <<"a", "b">>, <<"a", "b", "c">>}

NextRename ==
    \/ CreateProjectFileCall(FileProject, RenamePaths, Contents)
    \/ RenameProjectFileCall(FileProject, RenamePaths)
    \/ DeleteProjectFileCall(FileProject, RenamePaths)

SpecRename == InitFiles /\ [][NextRename]_vars

----------------------------------------------------------------------------
(* The queries on their own: a workspace is drawn, with missing, foreign,  *)
(* unparsable and unreadable entries in it, and the query operations are    *)
(* applied to it.                                                           *)

\* the filesystem holding node at p and nothing else
At(p, node) == [q \in {p} |-> node]
\* f with the entries of g added
Merge(f, g) == [q \in DOMAIN f \cup DOMAIN g |-> IF q \in DOMAIN g THEN g[q] ELSE f[q]]
Nothing == [q \in {} |-> DirNode]

\* a config.json as saveProjectConfig writes it at time t
StoredConfig(slug, t) ==
    FileNode(JSONstringify([id |-> StrV("proj_a1b2c3d4"), name |-> StrV(slug),
                            slug |-> StrV(slug), createdAt |-> NumV(0),
                            updatedAt |-> NumV(t)]))

\* what can stand at projects/<slug>/config.json
ConfigEntries(slug) ==
    LET at == join(getProjectPath(slug), <<"config.json">>)
    IN  {Nothing, At(at, DirNode), At(at, FileNode(Text("t"))),
         At(at, Unreadable(StoredConfig(slug, 0)))}
        \cup {At(at, StoredConfig(slug, t)) : t \in 0..MaxStamp}

\* what can stand at projects/<slug>/files
FilesEntries(slug) ==
    LET root == getProjectFilesPath(slug)
    IN  {Nothing,
         At(root, FileNode(Text("t"))),
         At(root, DirNode),
         At(root, Unreadable(DirNode)),
         Merge(At(root, DirNode), At(Append(root, ".h"), FileNode(Text("t")))),
         Merge(Merge(Merge(At(root, DirNode),
                           At(Append(root, "a"), FileNode(Text("t")))),
                     Merge(At(Append(root, "b"), Unreadable(FileNode(Text("t")))),
                           At(Append(root, "x"), Unreadable(DirNode)))),
               Merge(At(Append(root, "c"), DirNode),
                     At(root \o <<"c", "a">>, FileNode(Text("")))))}

\* the project whose folder is drawn in full, and the two drawn in outline
QueryProject == {"p"}
QuerySlugs == {"p", "x", "y"}
QueryPaths == {<<>>, <<"a">>, <<"b">>, <<"c">>, <<"c", "a">>, <<"x">>, <<"y">>}

FullFolders(slug) ==
    {Nothing, At(getProjectPath(slug), FileNode(Text("")))}
    \cup {Merge(At(getProjectPath(slug), DirNode), Merge(c, fl)) :
             c \in ConfigEntries(slug), fl \in FilesEntries(slug)}
OutlineFolders(slug) ==
    {Nothing, At(getProjectPath(slug), FileNode(Text(""))),
     At(getProjectPath(slug), DirNode)}
    \cup {Merge(At(getProjectPath(slug), DirNode),
                At(join(getProjectPath(slug), <<"config.json">>), StoredConfig(slug, t))) :
             t \in 0..MaxStamp}

QueryWorkspaces ==
    {EmptyWorkspace,
     Merge(EmptyWorkspace, At(getWorkspaceProjectsPath, FileNode(Text("")))),
     Merge(EmptyWorkspace, At(getWorkspaceProjectsPath, Unreadable(DirNode)))}
    \cup {Merge(Merge(EmptyWorkspace, At(getWorkspaceProjectsPath, DirNode)),
                Merge(a, Merge(b, c))) :
             a \in FullFolders("p"), b \in OutlineFolders("x"), c \in OutlineFolders("y")}

InitQueries ==
    /\ fs \in QueryWorkspaces
    /\ now = 0
    /\ last = NoCall
    /\ arg = <<>>
    /\ calls = NoCalls
    /\ viewer = NoViewer

NextQueries ==
    \/ LoadProjectConfigCall(QuerySlugs)
    \/ LoadProjectCall(QuerySlugs)
    \/ GetProjectSummaryCall(QuerySlugs)
    \/ ListProjectsCall
    \/ ListProjectFilesCall(QueryProject)
    \/ ReadProjectFileCall(QueryProject, QueryPaths)

SpecQueries == InitQueries /\ [][NextQueries]_vars

----------------------------------------------------------------------------
(* Two callers of createProject whose filesystem calls interleave: each     *)
(* step below is one filesystem call of createProject, lines 245-279.       *)

\* what randomUUID().slice(0, 8) gives each caller
CallerIds == (1 :> "a1b2c3d4") @@ (2 :> "e5f6a7b8")

InFlight(p) == calls[p].pc \notin {"idle", "done"}

\* the call of p ends: it returns ret, or throws when ret is Thrown
Return(p, ret) ==
    /\ calls' = [calls EXCEPT ![p].pc = "done", ![p].ret = ret]
    /\ last' = [op |-> "createProject", input |-> calls[p].input, ret |-> ret,
                caller |-> p]

\* lines 255-264
CallConfig(p) ==
    LET c == calls[p]
    IN  [id |-> StrV("proj_" \o CallerIds[p]),
         name |-> StrV(Str(c.input.name)),
         slug |-> StrV(c.slug),
         description |-> Get(c.input, "description"),
         guidelines |-> Get(c.input, "guidelines"),
         createdAt |-> NumV(c.t),
         updatedAt |-> NumV(c.t),
         enabledSourceSlugs |-> Get(c.input, "enabledSourceSlugs")]

\* line 245; overlap records whether the other caller is in its call
CreateBegin(p, Inputs) ==
    \E input \in Inputs, t \in Times(now) :
        /\ calls[p].pc = "idle"
        /\ calls' = [calls EXCEPT ![p] =
                        [pc |-> "ensure", input |-> input, t |-> t,
                         overlap |-> \E q \in Procs \ {p} : InFlight(q),
                         slug |-> "", counter |-> FirstCounter, ret |-> Undef]]
        /\ now' = t
        /\ UNCHANGED <<fs, last, arg, viewer>>

\* line 249
CreateEnsureRoot(p) ==
    /\ calls[p].pc = "ensure"
    /\ calls' = [calls EXCEPT ![p].pc =
                    IF existsSync(fs, getWorkspaceProjectsPath) THEN "probe"
                    ELSE "mkroot"]
    /\ UNCHANGED <<fs, now, last, arg, viewer>>

\* line 250
CreateMakeRoot(p) ==
    /\ calls[p].pc = "mkroot"
    /\ LET r == mkdirSync(fs, getWorkspaceProjectsPath)
       IN  /\ fs' = r.fs
           /\ IF r.ok
              THEN calls' = [calls EXCEPT ![p].pc = "probe"] /\ UNCHANGED last
              ELSE Return(p, Thrown)
    /\ UNCHANGED <<now, arg, viewer>>

\* the probe that takes the base slug without looking
CreateProbeBlind(p) ==
    /\ calls[p].pc = "probe"
    /\ calls' = [calls EXCEPT ![p].pc = "mkdir",
                              ![p].slug = Str(generateSlug(calls[p].input.name))]
    /\ UNCHANGED <<fs, now, last, arg, viewer>>

\* lines 86-91
CreateProbe(p) ==
    /\ calls[p].pc = "probe"
    /\ LET candidate == Str(generateSlug(calls[p].input.name))
       IN  calls' = IF ~existsSync(fs, join(getWorkspaceProjectsPath, <<candidate>>))
                    THEN [calls EXCEPT ![p].pc = "mkdir", ![p].slug = candidate]
                    ELSE [calls EXCEPT ![p].pc = "loop"]
    /\ UNCHANGED <<fs, now, last, arg, viewer>>

\* one turn of the while loop, lines 94-98
CreateProbeLoop(p) ==
    /\ calls[p].pc = "loop"
    /\ calls[p].counter <= MaxSuffix
    /\ LET candidate == Str(generateSlug(calls[p].input.name)) \o "-"
                            \o DecStr(calls[p].counter)
       IN  calls' = IF existsSync(fs, join(getWorkspaceProjectsPath, <<candidate>>))
                    THEN [calls EXCEPT ![p].counter = @ + 1]
                    ELSE [calls EXCEPT ![p].pc = "mkdir", ![p].slug = candidate]
    /\ UNCHANGED <<fs, now, last, arg, viewer>>

\* line 268
CreateMakeDir(p) ==
    /\ calls[p].pc = "mkdir"
    /\ LET r == mkdirSync(fs, getProjectPath(calls[p].slug))
       IN  /\ fs' = r.fs
           /\ IF r.ok
              THEN calls' = [calls EXCEPT ![p].pc = "mkfiles"] /\ UNCHANGED last
              ELSE Return(p, Thrown)
    /\ UNCHANGED <<now, arg, viewer>>

\* line 269
CreateMakeFiles(p) ==
    /\ calls[p].pc = "mkfiles"
    /\ LET r == mkdirSync(fs, getProjectFilesPath(calls[p].slug))
       IN  /\ fs' = r.fs
           /\ IF r.ok
              THEN calls' = [calls EXCEPT ![p].pc = "write"] /\ UNCHANGED last
              ELSE Return(p, Thrown)
    /\ UNCHANGED <<now, arg, viewer>>

\* lines 272-275
CreateWriteConfig(p) ==
    /\ calls[p].pc = "write"
    /\ LET r == writeFileSync(fs, join(getProjectPath(calls[p].slug), <<"config.json">>),
                              JSONstringify(CallConfig(p)))
       IN  /\ fs' = r.fs
           /\ IF ~r.ok THEN Return(p, Thrown)
              ELSE IF Truthy(Get(calls[p].input, "guidelines"))
              THEN calls' = [calls EXCEPT ![p].pc = "guidelines"] /\ UNCHANGED last
              ELSE Return(p, CallConfig(p))
    /\ UNCHANGED <<now, arg, viewer>>

\* lines 276-279
CreateWriteGuidelines(p) ==
    /\ calls[p].pc = "guidelines"
    /\ LET r == writeFileSync(fs, join(getProjectPath(calls[p].slug), <<"guidelines.md">>),
                              Text(calls[p].input.guidelines.str))
       IN  /\ fs' = r.fs
           /\ IF r.ok THEN Return(p, CallConfig(p)) ELSE Return(p, Thrown)
    /\ UNCHANGED <<now, arg, viewer>>

\* the workspace before the two calls: empty, or holding project x already
RaceWorkspaces ==
    {EmptyWorkspace,
     createProject(EmptyWorkspace, [name |-> <<"X", "!">>], 0, "00000000").fs}

InitRace ==
    /\ fs \in RaceWorkspaces
    /\ now = 0
    /\ last = NoCall
    /\ arg = <<>>
    /\ calls = NoCalls
    /\ viewer = NoViewer

NextRace ==
    \E p \in Procs :
        \/ CreateBegin(p, CreateInputs)
        \/ CreateEnsureRoot(p)
        \/ CreateMakeRoot(p)
        \/ CreateProbe(p)
        \/ CreateProbeLoop(p)
        \/ CreateMakeDir(p)
        \/ CreateMakeFiles(p)
        \/ CreateWriteConfig(p)
        \/ CreateWriteGuidelines(p)

SpecRace == InitRace /\ [][NextRace]_vars

----------------------------------------------------------------------------
(* The FileViewer component.  Its effect (lines 32-44) sends a              *)
(* readProjectFile request whenever a prop changes; the main process        *)
(* answers each request with what readProjectFile returns, in any order.    *)

\* text || ''
OrEmpty(text) == IF text = Null THEN "" ELSE text.text

\* useState, lines 22-26, and the effect of the first render
ViewerMount(Props) ==
    \E props \in Props :
        /\ ~viewer.mounted
        /\ viewer' = [mounted |-> TRUE, props |-> props,
                      content |-> Null, loading |-> TRUE, editing |-> FALSE,
                      editContent |-> "", saving |-> FALSE,
                      pending |-> {[id |-> 1, props |-> props]},
                      issued |-> 1, latest |-> Undef]
        /\ UNCHANGED <<fs, now, last, arg, calls>>

\* a render with other props: the effect runs again, lines 33-34
ViewerPropsChange(Props) ==
    \E props \in Props :
        /\ viewer.mounted
        /\ props # viewer.props
        /\ viewer.issued < MaxRequests
        /\ viewer' = [viewer EXCEPT
                         !.props = props,
                         !.loading = TRUE,
                         !.pending = @ \cup {[id |-> viewer.issued + 1, props |-> props]},
                         !.issued = @ + 1]
        /\ UNCHANGED <<fs, now, last, arg, calls>>

\* a request is answered: .then, lines 35-38, and .finally, line 43; latest
\* keeps the answer to the request sent for the current props
ViewerResolved ==
    \E req \in viewer.pending :
        LET text == readProjectFile(fs, req.props.projectSlug, req.props.filePath)
        IN  /\ viewer' = [viewer EXCEPT
                             !.content = text,
                             !.editContent = OrEmpty(text),
                             !.loading = FALSE,
                             !.pending = @ \ {req},
                             !.latest = IF req.id = viewer.issued
                                        THEN [resolved |-> TRUE, content |-> text]
                                        ELSE @]
            /\ UNCHANGED <<fs, now, last, arg, calls>>

\* a request fails: .catch, lines 39-42, and .finally, line 43
ViewerRejected ==
    \E req \in viewer.pending :
        /\ viewer' = [viewer EXCEPT
                         !.content = Null,
                         !.loading = FALSE,
                         !.pending = @ \ {req},
                         !.latest = IF req.id = viewer.issued
                                    THEN [resolved |-> FALSE, content |-> Null]
                                    ELSE @]
        /\ UNCHANGED <<fs, now, last, arg, calls>>

\* projects p and x with a few files in them
ViewerWorkspace ==
    LET p == getProjectFilesPath("p")
        x == getProjectFilesPath("x")
    IN  Merge(Merge(createProject(EmptyWorkspace, [name |-> <<"p">>], 0, "a1b2c3d4").fs,
                    createProject(EmptyWorkspace, [name |-> <<"x">>], 0, "e5f6a7b8").fs),
              Merge(Merge(At(Append(p, "a"), FileNode(Text("t"))),
                          At(Append(p, "b"), FileNode(Text("")))),
                    At(Append(x, "a"), FileNode(Text("u")))))

ViewerProps ==
    {[projectSlug |-> "p", filePath |-> f] : f \in {<<"a">>, <<"b">>, <<"y">>}}
    \cup {[projectSlug |-> "x", filePath |-> <<"a">>]}

InitViewer ==
    /\ fs = ViewerWorkspace
    /\ now = 0
    /\ last = NoCall
    /\ arg = <<>>
    /\ calls = NoCalls
    /\ viewer = NoViewer

NextViewer ==
    \/ ViewerMount(ViewerProps)
    \/ ViewerPropsChange(ViewerProps)
    \/ ViewerResolved
    \/ ViewerRejected

SpecViewer == InitViewer /\ [][NextViewer]_vars

----------------------------------------------------------------------------
(* The slug functions on their own: a name and a projects directory are    *)
(* drawn, then generateSlug and generateUniqueProjectSlug are applied.      *)

\* what a generated name starts and ends with
Edges == {<<>>, <<"a">>, <<"-">>, <<" ", "b">>, <<"!", "_">>, <<"B", "7">>}
\* the character its middle repeats
RunChars == {"a", "-", " ", "X"}
LongNames ==
    {pre \o [i \in 1..k |-> c] \o suf :
        pre \in Edges, suf \in Edges, c \in RunChars, k \in 0..MaxRun}
\* the names whose slug is probed against a populated projects directory
ProbeNames == {<<"x">>, <<"X", "!">>, <<"!">>, <<"x", "-", "2">>}

WorkspaceWith(entries, node) ==
    [p \in {<<>>, getWorkspaceProjectsPath}
           \cup {join(getWorkspaceProjectsPath, <<e>>) : e \in entries} |->
        IF Len(p) = 2 THEN node ELSE DirNode]

Suffixed(base, K) == {base \o "-" \o DecStr(k) : k \in K}

InitSlug ==
    /\ now = 0
    /\ last = NoCall
    /\ calls = NoCalls
    /\ viewer = NoViewer
    /\ \/ /\ arg \in LongNames
          /\ fs = WorkspaceWith({}, DirNode)
       \/ /\ arg \in ProbeNames
          /\ fs \in {WorkspaceWith(B \cup Suffixed(Str(generateSlug(arg)), K) \cup O, node) :
                        B \in {{}, {Str(generateSlug(arg))}},
                        K \in SUBSET (FirstCounter..MaxSuffix),
                        O \in {{}, {"y"}},
                        node \in {DirNode, FileNode(Text(""))}}

NextSlug ==
    \/ GenerateSlugCall
    \/ GenerateUniqueProjectSlugCall

SpecSlug == InitSlug /\ [][NextSlug]_vars

----------------------------------------------------------------------------
(* Properties of slug generation *)

SlugAlphabet == LowerLetters \cup DigitChars \cup {"-"}
Alphanumerics == LowerLetters \cup UpperLetters \cup DigitChars
ProjectWord == <<"p", "r", "o", "j", "e", "c", "t">>

\* C1: generateSlug(N) is non-empty, at most 50 characters long, made of
\* [a-z0-9-] only, neither begins nor ends with '-', and is "project" when N
\* holds no alphanumeric character.
C1_SlugWellFormed ==
    last.op = "generateSlug" =>
        LET s == last.ret
        IN  /\ Len(s) > 0
            /\ Len(s) <= SlugMaxLen
            /\ \A i \in 1..Len(s) : s[i] \in SlugAlphabet
            /\ s[1] # "-"
            /\ s[Len(s)] # "-"
            /\ (\A i \in 1..Len(last.name) : last.name[i] \notin Alphanumerics)
                   => s = ProjectWord

\* the entries of the projects directory
Entries == ChildNames(fs, getWorkspaceProjectsPath)

\* C2: generateUniqueProjectSlug returns a name that is no existing entry: the
\* base slug when it is unused, otherwise base-k for the smallest k >= 2 with
\* base-k unused.
C2_UniqueSlug ==
    last.op = "generateUniqueProjectSlug" =>
        LET base == Str(generateSlug(last.name))
        IN  /\ last.ret \notin Entries
            /\ base \notin Entries => last.ret = base
            /\ base \in Entries =>
                   \E k \in FirstCounter..(MaxSuffix + 1) :
                       /\ last.ret = base \o "-" \o DecStr(k)
                       /\ \A j \in FirstCounter..(k - 1) :
                              (base \o "-" \o DecStr(j)) \in Entries

\* existing {x, x-2}, base x: the probe returned x-3
C2_Witness ==
    /\ last.op = "generateUniqueProjectSlug"
    /\ Entries = {"x", "x-2"}
    /\ last.name = <<"X", "!">>
    /\ last.ret = "x-3"

----------------------------------------------------------------------------
(* Properties of the workspace operations *)

ConfigKeys == {"id", "name", "slug", "description", "guidelines",
               "createdAt", "updatedAt", "enabledSourceSlugs"}

\* two configs with the same value under every key (an absent key reads as
\* undefined)
SameConfig(a, b) ==
    /\ a # Null /\ a # Thrown
    /\ b # Null /\ b # Thrown
    /\ \A k \in ConfigKeys \cup DOMAIN a \cup DOMAIN b : Get(a, k) = Get(b, k)

\* everything below the projects directory outside project slug is the same
\* in f and g
OtherProjectsSame(f, g, slug) ==
    \A q \in DOMAIN f \cup DOMAIN g :
        (Len(q) >= 2 /\ q[1] = "projects" /\ q[2] # slug) =>
            q \in DOMAIN f /\ q \in DOMAIN g /\ f[q] = g[q]

CreateReturned(l) == l.op = "createProject" /\ l.ret # Thrown
BaseSlug(l) == Str(generateSlug(l.input.name))

\* what every createProject call that returns has done, from fs to fs'
CreatePost ==
    LET config == last'.ret
        slug == config.slug.str
        projectPath == getProjectPath(slug)
    IN  /\ config.createdAt = config.updatedAt
        /\ ~existsSync(fs, projectPath)
        /\ SameConfig(loadProjectConfig(fs', slug), config)
        /\ IsDir(fs', getProjectFilesPath(slug))
        /\ ~HasChildren(fs', getProjectFilesPath(slug))
        /\ OtherProjectsSame(fs, fs', slug)

\* C3 as stated: every createProject call that returns has createdAt =
\* updatedAt and a slug that named nothing before; its folder then holds a
\* config.json loading to the returned config and an empty files/, no other
\* project is modified; and two successive calls with the same name yield
\* base and base-2.
C3_CreateProjectAsStated ==
    [][CreateReturned(last') =>
          /\ CreatePost
          /\ (CreateReturned(last) /\ last.input.name = last'.input.name) =>
                 /\ last.ret.slug = StrV(BaseSlug(last))
                 /\ last'.ret.slug = StrV(BaseSlug(last) \o "-2")]_vars

\* C3 as amended: the same, the last sentence limited to two successive
\* calls made when neither base nor base-2 names an existing entry.
C3_CreateProject ==
    [][CreateReturned(last') =>
          /\ CreatePost
          /\ (/\ CreateReturned(last)
              /\ last.input.name = last'.input.name
              /\ last.ret.slug = StrV(BaseSlug(last))
              /\ (BaseSlug(last) \o "-2") \notin Entries) =>
                 last'.ret.slug = StrV(BaseSlug(last) \o "-2")]_vars

\* a second createProject with the same name has just returned x-2, with an
\* empty files/ directory, beside project x
C3_Witness ==
    /\ CreateReturned(last)
    /\ last.ret.slug = StrV("x-2")
    /\ last.ret.createdAt = last.ret.updatedAt
    /\ IsDir(fs, getProjectFilesPath("x-2"))
    /\ ~HasChildren(fs, getProjectFilesPath("x-2"))
    /\ loadProjectConfig(fs, "x") # Null

\* C4: every project folder that exists contains a files/ subdirectory.
C4_FilesDirAlways ==
    \A s \in Entries :
        IsDir(fs, getProjectPath(s)) => IsDir(fs, getProjectFilesPath(s))

----------------------------------------------------------------------------
(* Properties of the config operations *)

RecognizedKeys == {"name", "description", "guidelines", "enabledSourceSlugs"}
UpdateReturned(l) == l.op = "updateProject" /\ l.ret # Null /\ l.ret # Thrown

\* C5: whatever keys updates carries, an updateProject call leaves the
\* persisted id, slug and createdAt as they were; only the recognized fields
\* named in updates, and updatedAt, change.
C5_UpdateKeepsIdentity ==
    [][UpdateReturned(last') =>
          LET before == loadProjectConfig(fs, last'.slug)
              after == loadProjectConfig(fs', last'.slug)
          IN  /\ after # Null
              /\ \A k \in {"id", "slug", "createdAt"} : Get(after, k) = Get(before, k)
              /\ \A k \in (ConfigKeys \cup DOMAIN after) \ {"updatedAt"} :
                     k \notin (RecognizedKeys \cap DOMAIN last'.updates)
                         => Get(after, k) = Get(before, k)]_vars

guidelinesPath(slug) == join(getProjectPath(slug), <<"guidelines.md">>)
NonEmptyString(v) == "str" \in DOMAIN v /\ v.str # ""

\* guidelines.md of project s mirrors the guidelines of its persisted config
Mirrored(f, s) ==
    LET config == loadProjectConfig(f, s)
    IN  config # Null =>
            /\ existsSync(f, guidelinesPath(s)) <=> NonEmptyString(Get(config, "guidelines"))
            /\ existsSync(f, guidelinesPath(s)) =>
                   f[guidelinesPath(s)] = FileNode(Text(Get(config, "guidelines").str))

\* C6: after any sequence of createProject, updateProject and
\* saveProjectConfig calls, guidelines.md exists exactly when the persisted
\* guidelines are a non-empty string, and holds that text; updateProject with
\* guidelines "" removes guidelines.md.
C6_GuidelinesMirror ==
    [][/\ \A s \in Slugs : Mirrored(fs', s)
       /\ (UpdateReturned(last') /\ Get(last'.updates, "guidelines") = StrV(""))
              => ~existsSync(fs', guidelinesPath(last'.slug))]_vars

----------------------------------------------------------------------------
(* Properties of the file tree operations *)

\* the file nodes of a listing, children included
RECURSIVE CountFileNodes(_)
CountFileNodes(listing) ==
    IF listing = <<>> THEN 0
    ELSE (IF Head(listing).type = "file" THEN 1
          ELSE CountFileNodes(Head(listing).children))
         + CountFileNodes(Tail(listing))

\* the files below the files root of slug with no hidden component on the way
VisibleFiles(f, slug) ==
    {q \in DOMAIN f :
        /\ IsFile(f, q)
        /\ q # getProjectFilesPath(slug)
        /\ IsPrefix(getProjectFilesPath(slug), q)
        /\ \A i \in (Len(getProjectFilesPath(slug)) + 1)..Len(q) : q[i] \notin DotNames}

\* C7: fileCount of getProjectSummary counts no hidden file and no file below
\* a hidden directory, so it equals the number of file nodes in the tree
\* listProjectFiles returns.
C7_HiddenNotCounted ==
    (last.op = "getProjectSummary" /\ last.ret # Null) =>
        /\ last.ret.fileCount = NumV(Cardinality(VisibleFiles(fs, last.slug)))
        /\ last.ret.fileCount = NumV(CountFileNodes(listProjectFiles(fs, last.slug, <<>>)))

BooleanOps == {"deleteProject", "deleteProjectFile", "createProjectFile",
               "renameProjectFile"}

\* C8: deleteProject, deleteProjectFile, createProjectFile and
\* renameProjectFile never throw: they return true or false.
C8_BooleanOpsNeverThrow ==
    last.op \in BooleanOps => last.ret \in {BoolV(TRUE), BoolV(FALSE)}

\* the entry at p and everything below it is the same in f and g
SubtreeSame(f, g, p) ==
    \A q \in {r \in DOMAIN f \cup DOMAIN g : IsPrefix(p, r)} :
        q \in DOMAIN f /\ q \in DOMAIN g /\ f[q] = g[q]

\* g holds at new what f held at old
MovedTo(f, g, old, new) ==
    /\ \A q \in {r \in DOMAIN f : IsPrefix(old, r)} :
           LET to == new \o SubSeq(q, Len(old) + 1, Len(q))
           IN  to \in DOMAIN g /\ g[to] = f[q]
    /\ Cardinality({r \in DOMAIN g : IsPrefix(new, r)})
           = Cardinality({r \in DOMAIN f : IsPrefix(old, r)})

\* a component on the way to p is a regular file
FileOnTheWay(f, p) == \E q \in Prefixes(p) : q # p /\ IsFile(f, q)

CreateFileRefused ==
    LET full == join(getProjectFilesPath(last'.slug), last'.filePath)
    IN  existsSync(fs, full) =>
            last'.ret = BoolV(FALSE) /\ SubtreeSame(fs, fs', full)
CreateFileDone ==
    LET full == join(getProjectFilesPath(last'.slug), last'.filePath)
    IN  /\ last'.ret = BoolV(TRUE)
        /\ fs'[full] = FileNode(Text(last'.content))
RenameRefused ==
    LET old == join(getProjectFilesPath(last'.slug), last'.oldPath)
        new == join(getProjectFilesPath(last'.slug), last'.newPath)
    IN  (~existsSync(fs, old) \/ existsSync(fs, new)) =>
            /\ last'.ret = BoolV(FALSE)
            /\ SubtreeSame(fs, fs', old)
            /\ SubtreeSame(fs, fs', new)
RenameDone ==
    LET old == join(getProjectFilesPath(last'.slug), last'.oldPath)
        new == join(getProjectFilesPath(last'.slug), last'.newPath)
    IN  /\ last'.ret = BoolV(TRUE)
        /\ MovedTo(fs, fs', old, new)
        /\ ~existsSync(fs', old)

\* C9 as stated: on an existing target (or a missing oldPath) both return
\* false and change neither path; on a free target both return true, the
\* created path holds the given content, newPath holds what oldPath held and
\* oldPath is gone.
C9_NoOverwriteAsStated ==
    [][/\ last'.op = "createProjectFile" =>
              /\ CreateFileRefused
              /\ ~existsSync(fs, join(getProjectFilesPath(last'.slug), last'.filePath))
                     => CreateFileDone
       /\ last'.op = "renameProjectFile" =>
              /\ RenameRefused
              /\ (/\ existsSync(fs, join(getProjectFilesPath(last'.slug), last'.oldPath))
                  /\ ~existsSync(fs, join(getProjectFilesPath(last'.slug), last'.newPath)))
                     => RenameDone]_vars

\* C9 as amended: the same, but on a free target the call fails when a
\* component of the target's parent path is a regular file or, for a rename,
\* when newPath lies below oldPath: createProjectFile then does not return
\* true and creates nothing at the path, renameProjectFile returns false;
\* otherwise they return true as stated.
C9_NoOverwrite ==
    [][/\ last'.op = "createProjectFile" =>
              LET full == join(getProjectFilesPath(last'.slug), last'.filePath)
              IN  /\ CreateFileRefused
                  /\ ~existsSync(fs, full) =>
                         IF FileOnTheWay(fs, full)
                         THEN last'.ret # BoolV(TRUE) /\ ~existsSync(fs', full)
                         ELSE CreateFileDone
       /\ last'.op = "renameProjectFile" =>
              LET old == join(getProjectFilesPath(last'.slug), last'.oldPath)
                  new == join(getProjectFilesPath(last'.slug), last'.newPath)
              IN  /\ RenameRefused
                  /\ (existsSync(fs, old) /\ ~existsSync(fs, new)) =>
                         IF FileOnTheWay(fs, new) \/ IsPrefix(old, new)
                         THEN last'.ret = BoolV(FALSE)
                         ELSE RenameDone]_vars

\* a directory holding a file has just been renamed to a free path
C9_Witness ==
    /\ last.op = "renameProjectFile"
    /\ last.ret = BoolV(TRUE)
    /\ last.oldPath = <<"a">>
    /\ last.newPath = <<"b">>
    /\ IsFile(fs, join(getProjectFilesPath("p"), <<"b", "b">>))
    /\ ~existsSync(fs, join(getProjectFilesPath("p"), <<"a">>))

\* listing is what listProjectFiles owes for directory dir of slug in f
RECURSIVE GoodListing(_, _, _, _)
GoodListing(f, slug, dir, listing) ==
    LET visible == {n \in ChildNames(f, dir) : n \notin DotNames}
        rootLen == Len(getProjectFilesPath(slug))
    IN  /\ Len(listing) = Cardinality(visible)
        /\ {listing[i].name : i \in 1..Len(listing)} = visible
        /\ \A i \in 1..Len(listing) :
               LET node == listing[i]
                   full == Append(dir, node.name)
               IN  /\ node.path = PathStr(SubSeq(full, rootLen + 1, Len(full)))
                   /\ IF IsDir(f, full)
                      THEN /\ node.type = "directory"
                           /\ GoodListing(f, slug, full, node.children)
                      ELSE /\ node.type = "file"
                           /\ "children" \notin DOMAIN node
        /\ \A i \in 1..Len(listing) : \A j \in (i + 1)..Len(listing) :
               /\ listing[i].type = "file" => listing[j].type = "file"
               /\ listing[i].type = listing[j].type =>
                      CollationRank(listing[i].name) < CollationRank(listing[j].name)

\* C10: listProjectFiles returns at each level exactly the entries whose
\* name does not start with '.', directories before files and each group in
\* ascending name order, every directory node with the listing of its own
\* contents as children, every path the slash-separated path below the files
\* root.
C10_Listing ==
    (last.op = "listProjectFiles" /\ IsDir(fs, getProjectFilesPath(last.slug))) =>
        GoodListing(fs, last.slug, getProjectFilesPath(last.slug), last.ret)

\* the tree holds .h, the file b and the directory a with a file in it; the
\* listing is [a (directory, one child), b (file)]
C10_Witness ==
    /\ last.op = "listProjectFiles"
    /\ ChildNames(fs, getProjectFilesPath("p")) = {".h", "a", "b"}
    /\ Len(last.ret) = 2
    /\ last.ret[1].name = "a" /\ last.ret[1].type = "directory"
    /\ Len(last.ret[1].children) = 1
    /\ last.ret[1].children[1].path = "a/b"
    /\ last.ret[2].name = "b" /\ last.ret[2].type = "file"

----------------------------------------------------------------------------
(* Properties of the queries *)

configPath(slug) == join(getProjectPath(slug), <<"config.json">>)

\* config.json of slug is there, can be read and holds a JSON document
ParsableConfig(f, slug) ==
    /\ IsFile(f, configPath(slug))
    /\ ~Denied(f, configPath(slug))
    /\ "json" \in DOMAIN f[configPath(slug)].data

\* the immediate subdirectories of the projects root with such a config.json
ListedFolders(f) ==
    {d \in ChildNames(f, getWorkspaceProjectsPath) :
        IsDir(f, getProjectPath(d)) /\ ParsableConfig(f, d)}

\* summary carries the fields of the config.json stored for folder d
SummaryFrom(f, d, summary) ==
    \A k \in {"id", "slug", "name", "description", "createdAt", "updatedAt"} :
        summary[k] = Get(f[configPath(d)].data.json, k)

CountableFiles(f, slug) ==
    {q \in DOMAIN f :
        /\ IsFile(f, q)
        /\ q # getProjectFilesPath(slug)
        /\ IsPrefix(getProjectFilesPath(slug), q)
        /\ \A i \in Len(getProjectFilesPath(slug))..(Len(q) - 1) :
               IsDir(f, SubSeq(q, 1, i)) /\ ~Denied(f, SubSeq(q, 1, i))}

\* C15: no query throws.  A missing, unreadable or unparsable config.json
\* gives null from loadProjectConfig, loadProject and getProjectSummary; a
\* missing or unreadable file gives null from readProjectFile; a projects
\* root or files root that cannot be read gives an empty list; an unreadable
\* subdirectory is listed with no children and counted as 0 while the
\* entries beside it are still listed and counted.
C15_QueriesNeverThrow ==
    /\ last.op \in {"loadProjectConfig", "loadProject"} =>
           last.ret = IF ParsableConfig(fs, last.slug)
                      THEN fs[configPath(last.slug)].data.json ELSE Null
    /\ last.op = "getProjectSummary" =>
           IF ParsableConfig(fs, last.slug)
           THEN /\ SummaryFrom(fs, last.slug, last.ret)
                /\ last.ret.fileCount = NumV(Cardinality(CountableFiles(fs, last.slug)))
           ELSE last.ret = Null
    /\ last.op = "readProjectFile" =>
           LET full == join(getProjectFilesPath(last.slug), last.filePath)
           IN  last.ret = IF IsFile(fs, full) /\ ~Denied(fs, full)
                          THEN fs[full].data ELSE Null
    /\ last.op = "listProjects" =>
           /\ Len(last.ret) = Cardinality(ListedFolders(fs))
           /\ (~IsDir(fs, getWorkspaceProjectsPath)
                 \/ Denied(fs, getWorkspaceProjectsPath)) => last.ret = <<>>
    /\ last.op = "listProjectFiles" =>
           LET root == getProjectFilesPath(last.slug)
           IN  IF IsDir(fs, root) /\ ~Denied(fs, root)
               THEN GoodListing(fs, last.slug, root, last.ret)
               ELSE last.ret = <<>>

\* the file b cannot be read: readProjectFile has just returned null for it
C15_Witness ==
    /\ last.op = "readProjectFile"
    /\ last.filePath = <<"b">>
    /\ IsFile(fs, join(getProjectFilesPath("p"), <<"b">>))
    /\ Denied(fs, join(getProjectFilesPath("p"), <<"b">>))
    /\ last.ret = Null

----------------------------------------------------------------------------
(* Properties of the project lifecycle *)

\* the elements of a list
Elements(list) == {list[i] : i \in 1..Len(list)}

\* C12: deleteProject returns true exactly when the project folder existed,
\* and then the folder is gone, loadProject gives null, listProjects lists
\* what it listed before without that folder, every other project is as it
\* was, and a second deleteProject returns false and changes nothing; a false
\* return changes nothing.
C12_DeleteProject ==
    [][last'.op = "deleteProject" =>
          LET slug == last'.slug
              folder == getProjectPath(slug)
          IN  /\ last'.ret = BoolV(existsSync(fs, folder))
              /\ last'.ret = BoolV(FALSE) => fs' = fs
              /\ last'.ret = BoolV(TRUE) =>
                     /\ \A q \in DOMAIN fs' : ~IsPrefix(folder, q)
                     /\ loadProject(fs', slug) = Null
                     /\ Len(listProjects(fs')) = Cardinality(ListedFolders(fs) \ {slug})
                     /\ Elements(listProjects(fs')) =
                            {getProjectSummary(fs, d, 0) : d \in ListedFolders(fs) \ {slug}}
                     /\ OtherProjectsSame(fs, fs', slug)
                     /\ deleteProject(fs', slug) = Res(fs', BoolV(FALSE))]_vars

\* project x has just been deleted while x-2 is still there
C12_Witness ==
    /\ last.op = "deleteProject"
    /\ last.slug = "x"
    /\ last.ret = BoolV(TRUE)
    /\ ~existsSync(fs, getProjectPath("x"))
    /\ ListedFolders(fs) = {"x-2"}

\* C13: saveProjectConfig followed by loadProjectConfig on the same slug
\* returns the saved config in every field except updatedAt, which is the
\* time of the save, whether or not the project folder existed before.
C13_SaveLoadRoundTrip ==
    [][last'.op = "saveProjectConfig" =>
          LET loaded == loadProjectConfig(fs', last'.slug)
          IN  /\ last'.ret = Void
              /\ loaded # Null
              /\ \A k \in (ConfigKeys \cup DOMAIN last'.config \cup DOMAIN loaded)
                            \ {"updatedAt"} :
                     Get(loaded, k) = Get(last'.config, k)
              /\ Get(loaded, "updatedAt") = NumV(now')]_vars

\* a config with guidelines set to undefined has just been saved, later than
\* its own updatedAt, under a slug that had no folder
C13_Witness ==
    /\ last.op = "saveProjectConfig"
    /\ last.slug = "y"
    /\ ~last.existed
    /\ "guidelines" \in DOMAIN last.config
    /\ last.config.guidelines = Undef
    /\ last.config.updatedAt # NumV(now)
    /\ loadProjectConfig(fs, "y").updatedAt = NumV(now)

\* C14: updateProject on a slug whose config.json is absent or does not parse
\* returns null and leaves the filesystem as it was, whatever the updates.
C14_UpdateMissing ==
    [][(last'.op = "updateProject" /\ ~ParsableConfig(fs, last'.slug)) =>
          /\ last'.ret = Null
          /\ fs' = fs]_vars

\* updateProject with new guidelines has just returned null for a project
\* whose config.json is no JSON document; no guidelines.md was written
C14_Witness ==
    /\ last.op = "updateProject"
    /\ last.slug = "x"
    /\ last.updates = [guidelines |-> StrV("g2")]
    /\ last.ret = Null
    /\ IsFile(fs, configPath("x"))
    /\ ~existsSync(fs, guidelinesPath("x"))

\* C17: the config a successful updateProject returns is the one it
\* persisted: loadProjectConfig right after it returns a config equal to it in
\* every field, updatedAt included, also when the clock moves during the call.
C17_UpdateReturnsPersisted ==
    [][(last'.op = "updateProject" /\ last'.ret # Null /\ last'.ret # Thrown) =>
          SameConfig(loadProjectConfig(fs', last'.slug), last'.ret)]_vars

FileOps == {"readProjectFile", "writeProjectFile", "createProjectFile",
            "deleteProjectFile", "renameProjectFile"}

\* C18: whenever renameProjectFile returns false, the tree under the files
\* root is what it was before the call.
C18_FailedRenameChangesNothing ==
    [][(last'.op = "renameProjectFile" /\ last'.ret = BoolV(FALSE)) =>
          SubtreeSame(fs, fs', getProjectFilesPath(last'.slug))]_vars

\* q lies strictly inside the files directory of slug
InsideFiles(slug, q) ==
    q # getProjectFilesPath(slug) /\ IsPrefix(getProjectFilesPath(slug), q)

\* C19: the file operations touch only entries strictly inside the project's
\* files/ directory: config.json, guidelines.md, the files/ directory itself
\* and every other project are after the call what they were before.
C19_FileOpsStayInside ==
    [][last'.op \in FileOps =>
          \A q \in DOMAIN fs \cup DOMAIN fs' :
              ~InsideFiles(last'.slug, q) =>
                  q \in DOMAIN fs /\ q \in DOMAIN fs' /\ fs[q] = fs'[q]]_vars

----------------------------------------------------------------------------
(* Properties of interleaved createProject calls *)

BothReturned == \A p \in Procs : calls[p].pc = "done" /\ calls[p].ret # Thrown
Overlapped == \E p \in Procs : calls[p].pc # "idle" /\ calls[p].overlap
Collision == BothReturned /\ calls[1].ret.slug = calls[2].ret.slug

\* C16: the existence check and the folder creation of createProject are not
\* atomic.  Two calls that do not overlap never return the same slug; calls
\* whose filesystem calls interleave can, and then the config.json written
\* by one has been overwritten by the other: exactly one of the two returned
\* configs is on disk.
C16_CollisionWhenInterleaved ==
    /\ (BothReturned /\ ~Overlapped) => calls[1].ret.slug # calls[2].ret.slug
    /\ Collision =>
           LET stored == loadProjectConfig(fs, calls[1].ret.slug.str)
           IN  /\ Overlapped
               /\ SameConfig(stored, calls[1].ret) # SameConfig(stored, calls[2].ret)

\* both calls have returned slug x; config.json holds the config of caller 2,
\* the one caller 1 wrote is lost
C16_Witness ==
    /\ Collision
    /\ calls[1].ret.slug = StrV("x")
    /\ calls[1].ret.id # calls[2].ret.id
    /\ SameConfig(loadProjectConfig(fs, "x"), calls[2].ret)
    /\ ~SameConfig(loadProjectConfig(fs, "x"), calls[1].ret)

----------------------------------------------------------------------------
(* Properties of the FileViewer *)

\* C20: once every readProjectFile request of the FileViewer has settled,
\* loading is false and the content and editContent shown are those answered
\* for the latest props, whatever order the answers came in.
C20_LatestShown ==
    (viewer.mounted /\ viewer.pending = {}) =>
        /\ viewer.loading = FALSE
        /\ viewer.content = viewer.latest.content
        /\ viewer.latest.resolved =>
               viewer.editContent = OrEmpty(viewer.latest.content)

====
